---- MODULE Spec2Model ----
(***************************************************************************)
(* Quick-sale view (QuickSalePage) of inventory-joy: the client-side       *)
(* ticket that is composed from catalog look-ups, validated against the    *)
(* stock snapshot of each product and submitted as one POST /sales.        *)
(*                                                                         *)
(* Four specifications of the quick-sale view share the handlers below:                           *)
(*   Spec          the view as the operator drives it: every handler runs  *)
(*                 only through the control that is wired to it, and only  *)
(*                 while that control is rendered and not disabled;        *)
(*   SpecHandlers  the handlers as operations, called with any argument    *)
(*                 of their type (the contract of spec.md section 4);      *)
(*   SpecOps       the ticket operations alone, each step recorded in      *)
(*                 lastOp, for the operations that emit nothing;           *)
(*   SpecCatalog   the catalog look-up with the query cache of the         *)
(*                 QueryClient (which requests are issued, and when).      *)
(* Spec and SpecHandlers abstract the cache: a look-up shows nothing until *)
(* ProductsQueryResolve delivers a result, whether fetched or held.        *)
(* SpecSubmit is Spec with the total at the moment of sending recorded in  *)
(* lastOp, and SpecLive is Spec with the backend answering every request.  *)
(*                                                                         *)
(* The other components with a line list or a cycle of their own have one  *)
(* variable and one specification each: saleForm / SpecSaleForm            *)
(* (SaleFormDialog), purchaseForm / SpecPurchaseForm (PurchaseFormDialog), *)
(* sortConfig / SpecSorting (useSorting, one instance per page).           *)
(*                                                                         *)
(* Amounts are integers; the catalog's prices and the discount inputs are  *)
(* chosen so that subtotal * discountPercent is a multiple of 100, hence   *)
(* the division of discountAmount is exact (JavaScript's binary floating   *)
(* point is not modelled).                                                 *)
(***************************************************************************)
EXTENDS Integers, Sequences, FiniteSets, TLC

VARIABLES
    searchQuery,      \* useState("")               part_001:280
    searchOpen,       \* useState(false)            part_001:281
    selectedProduct,  \* useState<Product|null>     part_001:282
    quantity,         \* useState(1)                part_001:283
    ticketItems,      \* useState<TicketItem[]>([]) part_001:284
    discountPercent,  \* useState(0)                part_001:285
    paymentMethod,    \* useState("CASH")           part_001:286
    productsData,     \* useQuery(...).data         part_001:289
    isPending,        \* createSaleMutation.isPending part_001:784
    inFlight,         \* POST /sales requests sent and not yet answered
    posted,           \* bodies of the POST /sales sent by the most recent step
    subtotal,         \* useMemo                    part_001:315
    discountAmount,   \* useMemo                    part_001:319
    total,            \* useMemo                    part_001:323
    toasts,           \* notifications emitted by the most recent step
    cache,            \* queries of the QueryClient, by search text (SpecCatalog)
    requested,        \* GET requests issued by the most recent step (SpecCatalog)
    lastOp,           \* the operation of the most recent step (SpecOps, SpecCatalog)
    saleForm,         \* state of SaleFormDialog      SaleFormDialog.tsx:36
    purchaseForm,     \* state of PurchaseFormDialog  PurchaseFormDialog.tsx:36
    sortConfig        \* useState<SortConfig> of each page  Dashboard.tsx:262

vars == <<searchQuery, searchOpen, selectedProduct, quantity, ticketItems,
          discountPercent, paymentMethod, productsData, isPending,
          inFlight, posted, subtotal, discountAmount, total, toasts,
          cache, requested, lastOp, saleForm, purchaseForm, sortConfig>>

\* The state of the quick-sale view, and the other components.
quickSale == <<searchQuery, searchOpen, selectedProduct, quantity,
               ticketItems, discountPercent, paymentMethod, productsData,
               isPending, inFlight, posted, subtotal, discountAmount, total,
               toasts>>
views == <<saleForm, purchaseForm, sortConfig>>

\* What Spec and SpecHandlers leave alone.
aux == <<cache, requested, lastOp, views>>

----------------------------------------------------------------------------
(* Bounds and input sets *)

MaxStock == 2
MaxInFlight == 2

ProductIds == {"p1", "p2"}

\* Product (types): the fields the view reads.
Product(id, price, stock, minStock) ==
    [id |-> id, price |-> price, stock |-> stock, minStock |-> minStock]

\* selectedProduct === null
NoProduct == Product("", 0, 0, 0)

\* Stock snapshots GET /products may carry for each product: the figure
\* differs from one fetch to the next for p1.
StocksOf(id) == IF id = "p1" THEN {0, MaxStock - 1, MaxStock} ELSE {MaxStock}
PriceOf(id) == IF id = "p1" THEN 100 ELSE 50
MinStockOf(id) == IF id = "p1" THEN 1 ELSE 0
Snapshots(id) ==
    { Product(id, PriceOf(id), s, MinStockOf(id)) : s \in StocksOf(id) }
AllSnapshots == UNION { Snapshots(id) : id \in ProductIds }

\* Pages of results the backend answers a search with.
CatalogResults == { <<a, b>> : a \in Snapshots("p1"), b \in Snapshots("p2") }

NaN == MaxStock + 100              \* parseInt / parseFloat of a non-number
Queries == {"", "a"}
QuantityTexts == {NaN} \cup (-1 .. MaxStock)
LineQuantityTexts == {NaN} \cup (-1 .. (MaxStock + 1))
DiscountTexts == {NaN, -5, 10, 150}
PaymentMethods == {"CASH", "CARD", "TRANSFER"}
Undefined == NaN + 1               \* a property whose value is undefined

Max(a, b) == IF a > b THEN a ELSE b
Min(a, b) == IF a < b THEN a ELSE b

\* x || d on numbers: NaN and 0 are falsy.
OrElse(x, d) == IF x = NaN \/ x = 0 THEN d ELSE x

----------------------------------------------------------------------------
(* Pure parts of the handlers *)

\* ticketItems.find((item) => item.productId === id): its index, 0 if none.
FindIndex(items, id) ==
    IF \E i \in 1..Len(items) : items[i].productId = id
    THEN CHOOSE i \in 1..Len(items) :
            /\ items[i].productId = id
            /\ \A j \in 1..(i - 1) : items[j].productId # id
    ELSE 0

\* existingItem?.quantity || 0
CurrentQuantityInTicket(items, id) ==
    IF FindIndex(items, id) = 0 THEN 0
    ELSE OrElse(items[FindIndex(items, id)].quantity, 0)

\* MergeItem that raises the quantity and keeps the old subtotal.
MergeItemStaleSubtotal(items, product, totalQuantity) ==
    [i \in 1..Len(items) |->
        IF items[i].productId = product.id
        THEN [items[i] EXCEPT !.quantity = totalQuantity]
        ELSE items[i]]

\* The merge branch of handleAddToTicket: items.map(...).
MergeItem(items, product, totalQuantity) ==
    [i \in 1..Len(items) |->
        IF items[i].productId = product.id
        THEN [items[i] EXCEPT !.quantity = totalQuantity,
                              !.subtotal = items[i].unitPrice * totalQuantity]
        ELSE items[i]]

\* The new-line branch of handleAddToTicket.
NewItem(product, qty) ==
    [productId |-> product.id,
     product   |-> product,
     quantity  |-> qty,
     unitPrice |-> product.price,
     subtotal  |-> product.price * qty]

\* AppendItem that puts the new line first.
PrependItem(items, product, qty) == <<NewItem(product, qty)>> \o items

AppendItem(items, product, qty) == Append(items, NewItem(product, qty))

\* SetItemQuantity that keeps the old subtotal.
SetItemQuantityStaleSubtotal(items, productId, newQuantity) ==
    [i \in 1..Len(items) |->
        IF items[i].productId = productId
        THEN [items[i] EXCEPT !.quantity = newQuantity]
        ELSE items[i]]

\* The final setTicketItems of handleUpdateQuantity.
SetItemQuantity(items, productId, newQuantity) ==
    [i \in 1..Len(items) |->
        IF items[i].productId = productId
        THEN [items[i] EXCEPT !.quantity = newQuantity,
                              !.subtotal = items[i].unitPrice * newQuantity]
        ELSE items[i]]

\* RemoveItem whose filter keeps the lines of the product (=== for !==).
RemoveItemKeepsOnly(items, productId) ==
    SelectSeq(items, LAMBDA i : i.productId = productId)

\* handleRemoveItem: items.filter((i) => i.productId !== productId)
RemoveItem(items, productId) ==
    SelectSeq(items, LAMBDA i : i.productId # productId)

\* ticketItems.reduce((sum, item) => sum + item.subtotal, 0)
RECURSIVE SumSubtotals(_)
SumSubtotals(items) ==
    IF items = <<>> THEN 0
    ELSE SumSubtotals(SubSeq(items, 1, Len(items) - 1))
         + items[Len(items)].subtotal

\* (subtotal * discountPercent) / 100
DiscountOf(sub, percent) == (sub * percent) \div 100

\* subtotal - discountAmount
TotalOf(sub, disc) == sub - disc

\* Math.max(1, parseInt(e.target.value) || 1)
ParseQuantity(text) == Max(1, OrElse(text, 1))

\* ParseDiscount without the upper clamp.
ParseDiscountNoUpperClamp(text) == Max(0, OrElse(text, 0))

\* Math.min(100, Math.max(0, parseFloat(e.target.value) || 0))
ParseDiscount(text) == Min(100, Max(0, OrElse(text, 0)))

\* SaleData that sends discountPercent also when it is 0.
SaleDataAlwaysDiscount(items, method, percent) ==
    [items           |-> [i \in 1..Len(items) |->
                            [productId |-> items[i].productId,
                             quantity  |-> items[i].quantity]],
     paymentMethod   |-> method,
     discountPercent |-> percent,
     customerId      |-> "null"]

\* saleData of handleConfirmSale.
SaleData(items, method, percent) ==
    [items           |-> [i \in 1..Len(items) |->
                            [productId |-> items[i].productId,
                             quantity  |-> items[i].quantity]],
     paymentMethod   |-> method,
     discountPercent |-> IF percent > 0 THEN percent ELSE Undefined,
     customerId      |-> "null"]

\* JSON.stringify(data) in salesApi.create: a property whose value is
\* undefined is left out of the body.
JsonBody(data) ==
    IF data.discountPercent = Undefined
    THEN [items |-> data.items, paymentMethod |-> data.paymentMethod,
          customerId |-> data.customerId]
    ELSE [items |-> data.items, paymentMethod |-> data.paymentMethod,
          discountPercent |-> data.discountPercent,
          customerId |-> data.customerId]

\* InsufficientStock that lets one unit too many through.
InsufficientStockOffByOne(totalQuantity, product) ==
    totalQuantity > product.stock + 1

\* The stock precondition of handleAddToTicket.
InsufficientStock(totalQuantity, product) == totalQuantity > product.stock

\* EmptyTicket with the comparison that no length satisfies.
EmptyTicketWrongComparison(items) == Len(items) < 0

\* The guard of handleConfirmSale.
EmptyTicket(items) == Len(items) = 0

Toast(type, title, desc) == [type |-> type, title |-> title, desc |-> desc]

\* The body of a non-OK response: message is an array of strings
\* ("array"), one string ("string", held as a one-element sequence), or
\* the body is not JSON at all ("invalid").
ErrorBody(kind, message) == [kind |-> kind, message |-> message]
ErrorBodies ==
    { ErrorBody("array", <<"items must not be empty",
                           "quantity must be positive">>),
      ErrorBody("string", <<"Stock insuficiente">>),
      ErrorBody("string", <<"">>),
      ErrorBody("invalid", <<>>) }

\* Array.prototype.join(sep)
RECURSIVE Join(_, _)
Join(s, sep) ==
    IF Len(s) = 0 THEN ""
    ELSE IF Len(s) = 1 THEN s[1]
    ELSE s[1] \o sep \o Join(Tail(s), sep)

\* ErrorMessage that lets the array convert itself to a string, as
\* String(array) does: the elements joined by "," alone.
ErrorMessageDefaultJoin(body) ==
    LET error == IF body.kind = "invalid"
                 THEN ErrorBody("string", <<"Error de conexion">>)
                 ELSE body
    IN  IF error.kind = "array" THEN Join(error.message, ",")
        ELSE IF error.message[1] # "" THEN error.message[1]
        ELSE "Error desconocido"

\* handleResponse on !response.ok: the message of the ApiError thrown.
ErrorMessage(body) ==
    LET error == IF body.kind = "invalid"
                 THEN ErrorBody("string", <<"Error de conexion">>)
                 ELSE body
    IN  IF error.kind = "array" THEN Join(error.message, ", ")
        ELSE IF error.message[1] # "" THEN error.message[1]
        ELSE "Error desconocido"

----------------------------------------------------------------------------
(* Initial state: the component's first render *)

\* useQuery(...).data while the query has no result.
NoData == [loaded |-> FALSE, items |-> <<>>]

\* The search texts a query ["products","quick-sale",text] is built for,
\* and a query that holds nothing: never fetched, or removed from the cache.
\* fresh: the data is younger than staleTime and was not invalidated.
CacheKeys == {"", "a", "b"}
NoQuery == [data |-> NoData, fresh |-> FALSE, fetching |-> FALSE,
            failureCount |-> 0]

\* NONE_VALUE of the two form dialogs, and the value "" of an input.
NONE_VALUE == "__none__"
EmptyText == NaN + 2

\* Number(text) of the text of a number input.
Number(text) == IF text = EmptyText THEN 0 ELSE text

\* useState initial values of SaleFormDialog; open is the prop of the page
\* (useState(false) of formOpen); isPending, posted and toasts are the
\* mutation's flag and the outputs of the most recent step.
SaleFormInit ==
    [open |-> FALSE, items |-> <<>>, customerId |-> NONE_VALUE,
     paymentMethod |-> "CASH", discountPercent |-> 0, notes |-> "",
     selectedProductId |-> NONE_VALUE, quantity |-> 1,
     productsData |-> NoData, isPending |-> FALSE,
     posted |-> <<>>, toasts |-> <<>>]

\* useState initial values of PurchaseFormDialog.
PurchaseFormInit ==
    [open |-> FALSE, items |-> <<>>, supplierId |-> NONE_VALUE,
     notes |-> "", selectedProductId |-> NONE_VALUE, quantity |-> 1,
     unitCost |-> EmptyText, productsData |-> NoData, isPending |-> FALSE,
     posted |-> <<>>, toasts |-> <<>>]

\* The pages that call useSorting() and a SortConfig; "null" is null.
Pages == {"Clients", "Products", "Suppliers"}
SortConfig(sortBy, sortOrder) == [sortBy |-> sortBy, sortOrder |-> sortOrder]

\* An operation with the argument that names a product or a text, and the
\* number of ticket lines it found.
Op(op, id, n) == [op |-> op, id |-> id, n |-> n]

\* data of the products query once the key is ["products","quick-sale",q]:
\* the result held for the current key, nothing for a key just set.
QueryData(q) == IF q = searchQuery THEN productsData ELSE NoData

Init ==
    /\ searchQuery = ""
    /\ searchOpen = FALSE
    /\ selectedProduct = NoProduct
    /\ quantity = 1
    /\ ticketItems = <<>>
    /\ discountPercent = 0
    /\ paymentMethod = "CASH"
    /\ productsData = NoData
    /\ isPending = FALSE
    /\ inFlight = 0
    /\ posted = <<>>
    /\ subtotal = 0
    /\ discountAmount = 0
    /\ total = 0
    /\ toasts = <<>>
    /\ cache = [q \in CacheKeys |-> NoQuery]
    /\ requested = <<>>
    /\ lastOp = Op("mount", "", 0)
    /\ saleForm = SaleFormInit
    /\ purchaseForm = PurchaseFormInit
    /\ sortConfig = [page \in Pages |-> SortConfig("null", "null")]

\* Render whose discountAmount memo lacks discountPercent among its
\* dependencies.
RenderStaleDiscount ==
    /\ subtotal' = IF ticketItems' # ticketItems
                   THEN SumSubtotals(ticketItems') ELSE subtotal
    /\ discountAmount' =
          IF subtotal' # subtotal
          THEN DiscountOf(subtotal', discountPercent') ELSE discountAmount
    /\ total' = IF subtotal' # subtotal \/ discountAmount' # discountAmount
                THEN TotalOf(subtotal', discountAmount') ELSE total

\* The re-render that follows every state change: each useMemo recomputes
\* when one of its dependencies differs from the previous render.
Render ==
    /\ subtotal' = IF ticketItems' # ticketItems
                   THEN SumSubtotals(ticketItems') ELSE subtotal
    /\ discountAmount' =
          IF subtotal' # subtotal \/ discountPercent' # discountPercent
          THEN DiscountOf(subtotal', discountPercent') ELSE discountAmount
    /\ total' = IF subtotal' # subtotal \/ discountAmount' # discountAmount
                THEN TotalOf(subtotal', discountAmount') ELSE total

----------------------------------------------------------------------------
(* Handlers *)

\* handleSelectProduct(product)
handleSelectProduct(product) ==
    /\ selectedProduct' = product
    /\ quantity' = 1
    /\ searchQuery' = ""
    /\ searchOpen' = FALSE
    /\ productsData' = QueryData("")
    /\ toasts' = <<>>
    /\ posted' = <<>>
    /\ UNCHANGED <<ticketItems, discountPercent, paymentMethod,
                   isPending, inFlight>>
    /\ Render

\* LowStockToasts that warns only below minStock, not at it.
LowStockToastsStrict(product, totalQuantity) ==
    LET remainingStock == product.stock - totalQuantity IN
    IF remainingStock < product.minStock /\ remainingStock > 0
    THEN << Toast("warning", "Stock bajo", <<remainingStock>>) >>
    ELSE <<>>

\* Low-stock advisory of handleAddToTicket.
LowStockToasts(product, totalQuantity) ==
    LET remainingStock == product.stock - totalQuantity IN
    IF remainingStock <= product.minStock /\ remainingStock > 0
    THEN << Toast("warning", "Stock bajo", <<remainingStock>>) >>
    ELSE <<>>

\* handleAddToTicket()
handleAddToTicket ==
    LET currentQuantityInTicket ==
            CurrentQuantityInTicket(ticketItems, selectedProduct.id)
        totalQuantity == currentQuantityInTicket + quantity
        existing == FindIndex(ticketItems, selectedProduct.id) # 0
    IN
    /\ posted' = <<>>
    /\ UNCHANGED <<searchQuery, searchOpen, discountPercent, paymentMethod,
                   productsData, isPending, inFlight>>
    /\ IF selectedProduct = NoProduct
       THEN /\ toasts' = <<>>
            /\ UNCHANGED <<ticketItems, selectedProduct, quantity>>
       ELSE IF quantity <= 0
       THEN /\ toasts' = << Toast("error", "Cantidad invalida", <<>>) >>
            /\ UNCHANGED <<ticketItems, selectedProduct, quantity>>
       ELSE IF InsufficientStock(totalQuantity, selectedProduct)
       THEN /\ toasts' = << Toast("error", "Stock insuficiente",
                                  <<selectedProduct.stock,
                                    currentQuantityInTicket>>) >>
            /\ UNCHANGED <<ticketItems, selectedProduct, quantity>>
       ELSE /\ IF existing
               THEN /\ ticketItems' =
                          MergeItem(ticketItems, selectedProduct, totalQuantity)
                    /\ toasts' =
                          << Toast("info", "Cantidad actualizada",
                                   <<totalQuantity>>) >>
                          \o LowStockToasts(selectedProduct, totalQuantity)
               ELSE /\ ticketItems' =
                          AppendItem(ticketItems, selectedProduct, quantity)
                    /\ toasts' =
                          LowStockToasts(selectedProduct, totalQuantity)
            /\ selectedProduct' = NoProduct
            /\ quantity' = 1
    /\ Render

\* handleRemoveItem(productId)
handleRemoveItem(productId) ==
    /\ ticketItems' = RemoveItem(ticketItems, productId)
    /\ toasts' = <<>>
    /\ posted' = <<>>
    /\ UNCHANGED <<searchQuery, searchOpen, selectedProduct, quantity,
                   discountPercent, paymentMethod, productsData,
                   isPending, inFlight>>
    /\ Render

\* handleUpdateQuantity(productId, newQuantity)
handleUpdateQuantity(productId, newQuantity) ==
    LET idx == FindIndex(ticketItems, productId) IN
    /\ posted' = <<>>
    /\ UNCHANGED <<searchQuery, searchOpen, selectedProduct, quantity,
                   discountPercent, paymentMethod, productsData,
                   isPending, inFlight>>
    /\ IF idx = 0
       THEN /\ toasts' = <<>>
            /\ UNCHANGED ticketItems
       ELSE IF newQuantity <= 0
       THEN /\ ticketItems' = RemoveItem(ticketItems, productId)
            /\ toasts' = <<>>
       ELSE IF newQuantity > ticketItems[idx].product.stock
       THEN /\ toasts' = << Toast("error", "Stock insuficiente",
                                  <<ticketItems[idx].product.stock>>) >>
            /\ UNCHANGED ticketItems
       ELSE /\ ticketItems' =
                  SetItemQuantity(ticketItems, productId, newQuantity)
            /\ toasts' = <<>>
    /\ Render

\* ClearTicketState that leaves the staged product as it is.
ClearTicketStateKeepsSelection ==
    /\ ticketItems' = <<>>
    /\ UNCHANGED selectedProduct
    /\ quantity' = 1
    /\ discountPercent' = 0
    /\ paymentMethod' = "CASH"
    /\ searchQuery' = ""

\* ClearTicketState that leaves the discount as it is.
ClearTicketStateKeepsDiscount ==
    /\ ticketItems' = <<>>
    /\ selectedProduct' = NoProduct
    /\ quantity' = 1
    /\ UNCHANGED discountPercent
    /\ paymentMethod' = "CASH"
    /\ searchQuery' = ""

\* The six setters of handleClearTicket.
ClearTicketState ==
    /\ ticketItems' = <<>>
    /\ selectedProduct' = NoProduct
    /\ quantity' = 1
    /\ discountPercent' = 0
    /\ paymentMethod' = "CASH"
    /\ searchQuery' = ""

\* handleClearTicket()
handleClearTicket ==
    /\ ClearTicketState
    /\ productsData' = QueryData("")
    /\ toasts' = <<>>
    /\ posted' = <<>>
    /\ UNCHANGED <<searchOpen, isPending, inFlight>>
    /\ Render

\* handleConfirmSale()
handleConfirmSale ==
    /\ UNCHANGED <<searchQuery, searchOpen, selectedProduct, quantity,
                   ticketItems, discountPercent, paymentMethod, productsData>>
    /\ IF EmptyTicket(ticketItems)
       THEN /\ toasts' = << Toast("error", "Ticket vacio", <<>>) >>
            /\ posted' = <<>>
            /\ UNCHANGED <<isPending, inFlight>>
       ELSE /\ toasts' = <<>>
            /\ posted' = << JsonBody(SaleData(ticketItems, paymentMethod,
                                              discountPercent)) >>
            /\ isPending' = TRUE
            /\ inFlight' = inFlight + 1
    /\ Render

\* setQuantity(Math.max(1, parseInt(e.target.value) || 1))
QuantityInputChange(text) ==
    /\ quantity' = ParseQuantity(text)
    /\ toasts' = <<>>
    /\ posted' = <<>>
    /\ UNCHANGED <<searchQuery, searchOpen, selectedProduct, ticketItems,
                   discountPercent, paymentMethod, productsData,
                   isPending, inFlight>>
    /\ Render

\* setDiscountPercent(Math.min(100, Math.max(0, parseFloat(...) || 0)))
DiscountInputChange(text) ==
    /\ discountPercent' = ParseDiscount(text)
    /\ toasts' = <<>>
    /\ posted' = <<>>
    /\ UNCHANGED <<searchQuery, searchOpen, selectedProduct, quantity,
                   ticketItems, paymentMethod, productsData, isPending,
                   inFlight>>
    /\ Render

\* onValueChange of the payment method Select
PaymentMethodChange(value) ==
    /\ paymentMethod' = value
    /\ toasts' = <<>>
    /\ posted' = <<>>
    /\ UNCHANGED <<searchQuery, searchOpen, selectedProduct, quantity,
               ticketItems, discountPercent, productsData, isPending,
               inFlight>>
    /\ Render

\* onClick of the "Cancelar seleccion" button: setSelectedProduct(null)
ClearSelection ==
    /\ selectedProduct' = NoProduct
    /\ toasts' = <<>>
    /\ posted' = <<>>
    /\ UNCHANGED <<searchQuery, searchOpen, quantity, ticketItems,
                   discountPercent, paymentMethod, productsData,
                   isPending, inFlight>>
    /\ Render

\* onChange of the search input
SearchInputChange(text) ==
    /\ searchQuery' = text
    /\ searchOpen' = (text # "")
    /\ productsData' = QueryData(text)
    /\ toasts' = <<>>
    /\ posted' = <<>>
    /\ UNCHANGED <<selectedProduct, quantity, ticketItems, discountPercent,
                   paymentMethod, isPending, inFlight>>
    /\ Render

----------------------------------------------------------------------------
(* Answers of the backend *)

\* The products query (enabled: searchQuery.length > 0) resolves.
ProductsQueryResolve(items) ==
    /\ searchQuery # ""
    /\ ~productsData.loaded
    /\ productsData' = [loaded |-> TRUE, items |-> items]
    /\ toasts' = <<>>
    /\ posted' = <<>>
    /\ UNCHANGED <<searchQuery, searchOpen, selectedProduct, quantity,
                   ticketItems, discountPercent, paymentMethod,
                   isPending, inFlight>>
    /\ Render

\* An answer belongs either to the mutation the observer follows (the one
\* started last, while it is pending) or to one started before it.
Answered(current) ==
    IF current THEN isPending
    ELSE inFlight > (IF isPending THEN 1 ELSE 0)

\* createSaleMutation.onSuccess
SaleMutationSuccess(current) ==
    /\ Answered(current)
    /\ inFlight' = inFlight - 1
    /\ isPending' = IF current THEN FALSE ELSE isPending
    /\ toasts' = << Toast("success", "Venta realizada", <<total>>) >>
    /\ ClearTicketState
    /\ productsData' = QueryData("")
    /\ posted' = <<>>
    /\ UNCHANGED searchOpen
    /\ Render

\* SaleMutationError of a mutation with retry: the failed request is sent
\* again and nothing is shown.
SaleMutationErrorResends(current, body) ==
    /\ Answered(current)
    /\ UNCHANGED <<inFlight, isPending>>
    /\ toasts' = <<>>
    /\ posted' = << JsonBody(SaleData(ticketItems, paymentMethod,
                                      discountPercent)) >>
    /\ UNCHANGED <<searchQuery, searchOpen, selectedProduct, quantity,
                   ticketItems, discountPercent, paymentMethod, productsData>>
    /\ Render

\* onError that also clears the ticket, as onSuccess does.
SaleMutationErrorClears(current, body) ==
    /\ Answered(current)
    /\ inFlight' = inFlight - 1
    /\ isPending' = IF current THEN FALSE ELSE isPending
    /\ toasts' = << Toast("error", "Error al procesar la venta",
                          <<ErrorMessage(body)>>) >>
    /\ ticketItems' = <<>>
    /\ selectedProduct' = NoProduct
    /\ quantity' = 1
    /\ discountPercent' = 0
    /\ paymentMethod' = "CASH"
    /\ searchQuery' = ""
    /\ productsData' = QueryData("")
    /\ posted' = <<>>
    /\ UNCHANGED searchOpen
    /\ Render

\* onError that shows the failure and leaves the mutation pending.
SaleMutationErrorStaysPending(current, body) ==
    /\ Answered(current)
    /\ UNCHANGED <<inFlight, isPending>>
    /\ toasts' = << Toast("error", "Error al procesar la venta",
                          <<ErrorMessage(body)>>) >>
    /\ posted' = <<>>
    /\ UNCHANGED <<searchQuery, searchOpen, selectedProduct, quantity,
                   ticketItems, discountPercent, paymentMethod, productsData>>
    /\ Render

\* createSaleMutation.onError, for the ApiError handleResponse throws on
\* the body of the non-OK response.
SaleMutationError(current, body) ==
    /\ Answered(current)
    /\ inFlight' = inFlight - 1
    /\ isPending' = IF current THEN FALSE ELSE isPending
    /\ toasts' = << Toast("error", "Error al procesar la venta",
                          <<ErrorMessage(body)>>) >>
    /\ posted' = <<>>
    /\ UNCHANGED <<searchQuery, searchOpen, selectedProduct, quantity,
                   ticketItems, discountPercent, paymentMethod, productsData>>
    /\ Render

----------------------------------------------------------------------------
(* The controls of the view *)

\* <Input value={searchQuery} onChange=...>
TypeSearch(text) ==
    /\ text # searchQuery
    /\ SearchInputChange(text)

\* <CommandItem onSelect=... disabled={product.stock === 0}>
PickProduct(i) ==
    /\ searchOpen
    /\ productsData.loaded
    /\ productsData.items[i].stock # 0
    /\ handleSelectProduct(productsData.items[i])

\* The quantity input of the selected-product card.
TypeQuantity(text) ==
    /\ selectedProduct # NoProduct
    /\ QuantityInputChange(text)

\* <Button onClick={handleAddToTicket}
\*         disabled={quantity > selectedProduct.stock}>
ClickAgregar ==
    /\ selectedProduct # NoProduct
    /\ ~(quantity > selectedProduct.stock)
    /\ handleAddToTicket

\* The X button of the selected-product card.
ClickCancelarSeleccion ==
    /\ selectedProduct # NoProduct
    /\ ClearSelection

\* The quantity input of a ticket row:
\* handleUpdateQuantity(item.productId, parseInt(e.target.value) || 0)
TypeLineQuantity(i, text) ==
    handleUpdateQuantity(ticketItems[i].productId, OrElse(text, 0))

\* The trash button of a ticket row.
ClickEliminar(i) ==
    handleRemoveItem(ticketItems[i].productId)

\* CobrarDisabled without createSaleMutation.isPending.
CobrarDisabledIgnoresPending == Len(ticketItems) = 0

\* <Button onClick={handleConfirmSale}
\*    disabled={ticketItems.length === 0 || createSaleMutation.isPending}>
CobrarDisabled == Len(ticketItems) = 0 \/ isPending

ClickCobrar ==
    /\ ~CobrarDisabled
    /\ handleConfirmSale

\* <Button onClick={handleClearTicket}
\*    disabled={ticketItems.length === 0 && !selectedProduct}>
ClickCancelarVenta ==
    /\ ~(Len(ticketItems) = 0 /\ selectedProduct = NoProduct)
    /\ handleClearTicket

Next ==
    \/ \E text \in Queries : TypeSearch(text) /\ UNCHANGED aux
    \/ \E items \in CatalogResults :
          ProductsQueryResolve(items) /\ UNCHANGED aux
    \/ \E i \in 1..Len(productsData.items) : PickProduct(i) /\ UNCHANGED aux
    \/ \E text \in QuantityTexts : TypeQuantity(text) /\ UNCHANGED aux
    \/ ClickAgregar /\ UNCHANGED aux
    \/ ClickCancelarSeleccion /\ UNCHANGED aux
    \/ \E i \in 1..Len(ticketItems), text \in LineQuantityTexts :
          TypeLineQuantity(i, text) /\ UNCHANGED aux
    \/ \E i \in 1..Len(ticketItems) : ClickEliminar(i) /\ UNCHANGED aux
    \/ \E text \in DiscountTexts : DiscountInputChange(text) /\ UNCHANGED aux
    \/ \E value \in PaymentMethods :
          PaymentMethodChange(value) /\ UNCHANGED aux
    \/ ClickCobrar /\ UNCHANGED aux
    \/ ClickCancelarVenta /\ UNCHANGED aux
    \/ SaleMutationSuccess(TRUE) /\ UNCHANGED aux
    \/ \E body \in ErrorBodies :
          SaleMutationError(TRUE, body) /\ UNCHANGED aux

Spec == Init /\ [][Next]_vars

----------------------------------------------------------------------------
(* The handlers as operations *)

NextHandlers ==
    \/ \E product \in AllSnapshots :
          handleSelectProduct(product) /\ UNCHANGED aux
    \/ \E text \in QuantityTexts : QuantityInputChange(text) /\ UNCHANGED aux
    \/ handleAddToTicket /\ UNCHANGED aux
    \/ ClearSelection /\ UNCHANGED aux
    \/ \E id \in ProductIds, n \in -1..(MaxStock + 1) :
          handleUpdateQuantity(id, n) /\ UNCHANGED aux
    \/ \E id \in ProductIds : handleRemoveItem(id) /\ UNCHANGED aux
    \/ \E text \in DiscountTexts : DiscountInputChange(text) /\ UNCHANGED aux
    \/ \E value \in PaymentMethods :
          PaymentMethodChange(value) /\ UNCHANGED aux
    \/ inFlight < MaxInFlight /\ handleConfirmSale /\ UNCHANGED aux
    \/ handleClearTicket /\ UNCHANGED aux
    \/ \E current \in BOOLEAN :
          SaleMutationSuccess(current) /\ UNCHANGED aux
    \/ \E current \in BOOLEAN, body \in ErrorBodies :
          SaleMutationError(current, body) /\ UNCHANGED aux

SpecHandlers == Init /\ [][NextHandlers]_vars

\* The view with the total of the render that sent the order kept in lastOp
\* for as long as the order is pending: the step that starts a submission
\* records it, the steps in flight keep it.
Sent ==
    /\ lastOp' = IF ~isPending /\ isPending'
                 THEN Op("handleConfirmSale", "", total)
                 ELSE IF isPending' THEN lastOp
                 ELSE Op("mount", "", 0)
    /\ UNCHANGED <<cache, requested, views>>

NextSubmit ==
    \/ \E text \in Queries : TypeSearch(text) /\ Sent
    \/ \E items \in CatalogResults : ProductsQueryResolve(items) /\ Sent
    \/ \E i \in 1..Len(productsData.items) : PickProduct(i) /\ Sent
    \/ \E text \in QuantityTexts : TypeQuantity(text) /\ Sent
    \/ ClickAgregar /\ Sent
    \/ ClickCancelarSeleccion /\ Sent
    \/ \E i \in 1..Len(ticketItems), text \in LineQuantityTexts :
          TypeLineQuantity(i, text) /\ Sent
    \/ \E i \in 1..Len(ticketItems) : ClickEliminar(i) /\ Sent
    \/ \E text \in DiscountTexts : DiscountInputChange(text) /\ Sent
    \/ \E value \in PaymentMethods : PaymentMethodChange(value) /\ Sent
    \/ ClickCobrar /\ Sent
    \/ ClickCancelarVenta /\ Sent
    \/ SaleMutationSuccess(TRUE) /\ Sent
    \/ \E body \in ErrorBodies : SaleMutationError(TRUE, body) /\ Sent

SpecSubmit == Init /\ [][NextSubmit]_vars

\* The view with a backend that answers: the order of a pending mutation is
\* answered with success or with a failure sooner or later.
BackendAnswers ==
    /\ \/ SaleMutationSuccess(TRUE)
       \/ \E body \in ErrorBodies : SaleMutationError(TRUE, body)
    /\ UNCHANGED aux

SpecLive == Init /\ [][Next]_vars /\ WF_vars(BackendAnswers)

----------------------------------------------------------------------------
(* The ticket operations, each recorded in lastOp *)

\* The step is the operation op on id, found with the present number of
\* lines.
Recorded(op, id) ==
    /\ lastOp' = Op(op, id, Len(ticketItems))
    /\ UNCHANGED <<cache, requested, views>>

NextOps ==
    \/ \E product \in AllSnapshots :
          /\ handleSelectProduct(product)
          /\ Recorded("handleSelectProduct", product.id)
    \/ \E text \in QuantityTexts :
          QuantityInputChange(text) /\ Recorded("setQuantity", "")
    \/ handleAddToTicket /\ Recorded("handleAddToTicket", selectedProduct.id)
    \/ \E id \in ProductIds, n \in -1..(MaxStock + 1) :
          handleUpdateQuantity(id, n) /\ Recorded("handleUpdateQuantity", id)
    \/ \E id \in ProductIds :
          handleRemoveItem(id) /\ Recorded("handleRemoveItem", id)
    \/ \E text \in DiscountTexts :
          DiscountInputChange(text) /\ Recorded("setDiscountPercent", "")
    \/ \E value \in PaymentMethods :
          PaymentMethodChange(value) /\ Recorded("setPaymentMethod", "")
    \/ handleClearTicket /\ Recorded("handleClearTicket", "")

SpecOps == Init /\ [][NextOps]_vars

----------------------------------------------------------------------------
(* The catalog look-up with the query cache *)

CatalogLimit == 20
QueryRetry == 1

\* One entry of the params object, its value as String(value) gives it.
Param(key, kind, text) == [key |-> key, kind |-> kind, text |-> text]
BoolText(b) == IF b THEN "true" ELSE "false"

\* The argument of productsApi.getAll in the queryFn.
ProductsParams(q) ==
    << Param("search", "string", q),
       Param("active", "boolean", BoolText(TRUE)),
       Param("limit", "number", ToString(CatalogLimit)) >>

\* buildQueryString(params): entries that are undefined or "" are left out.
BuildQueryString(params) ==
    LET kept == SelectSeq(params,
                    LAMBDA e : e.kind # "undefined"
                               /\ ~(e.kind = "string" /\ e.text = ""))
        pairs == [i \in 1..Len(kept) |-> kept[i].key \o "=" \o kept[i].text]
        queryString == Join(pairs, "&")
    IN  IF queryString # "" THEN "?" \o queryString ELSE ""

\* The endpoint productsApi.getAll fetches for the search text q.
GetProducts(q) == "/products" \o BuildQueryString(ProductsParams(q))

\* QueryEnabled that ignores the search text.
QueryEnabledAlways(q) == TRUE

\* enabled: searchQuery.length > 0
QueryEnabled(q) == Len(q) > 0

\* IsStale of a client with staleTime 0: held data is never fresh.
IsStaleAlways(e) == TRUE

\* A query is fetched on a trigger when it holds no data or data that is
\* not fresh (staleTime: 1000 * 60 * 5).
IsStale(e) == ~e.data.loaded \/ ~e.fresh

\* The observer turns to the query of text q: a stale query that is not
\* being fetched is fetched; a fetch under way is joined, not repeated.
StartsFetch(q) ==
    QueryEnabled(q) /\ IsStale(cache[q]) /\ ~cache[q].fetching

\* What no step of the look-up touches.
CatalogUnchanged ==
    /\ UNCHANGED views
    /\ toasts' = <<>>
    /\ posted' = <<>>
    /\ UNCHANGED <<quantity, ticketItems, discountPercent, paymentMethod,
                   isPending, inFlight>>
    /\ Render

\* onChange of the search input, and the useQuery of the next render.
CatalogSearchInputChange(text) ==
    /\ searchQuery' = text
    /\ searchOpen' = (Len(text) > 0)
    /\ cache' = IF StartsFetch(text)
                THEN [cache EXCEPT ![text].fetching = TRUE,
                                   ![text].failureCount = 0]
                ELSE cache
    /\ requested' = IF StartsFetch(text) THEN <<GetProducts(text)>> ELSE <<>>
    /\ productsData' = cache[text].data
    /\ lastOp' = Op("setSearchQuery", text, 0)
    /\ UNCHANGED selectedProduct
    /\ CatalogUnchanged

CatalogTypeSearch(text) ==
    /\ text # searchQuery
    /\ CatalogSearchInputChange(text)

\* CatalogResponse that shows every result that arrives, whatever text it
\* was fetched for.
CatalogResponseOverwrites(q, items) ==
    /\ cache[q].fetching
    /\ cache' = [cache EXCEPT ![q] = [data |-> [loaded |-> TRUE,
                                                items |-> items],
                                      fresh |-> TRUE,
                                      fetching |-> FALSE,
                                      failureCount |-> 0]]
    /\ productsData' = [loaded |-> TRUE, items |-> items]
    /\ requested' = <<>>
    /\ lastOp' = Op("response", q, 0)
    /\ UNCHANGED <<searchQuery, searchOpen, selectedProduct>>
    /\ CatalogUnchanged

\* The fetch of the query of text q resolves with a page of results.
CatalogResponse(q, items) ==
    /\ cache[q].fetching
    /\ cache' = [cache EXCEPT ![q] = [data |-> [loaded |-> TRUE,
                                                items |-> items],
                                      fresh |-> TRUE,
                                      fetching |-> FALSE,
                                      failureCount |-> 0]]
    /\ productsData' = cache'[searchQuery].data
    /\ requested' = <<>>
    /\ lastOp' = Op("response", q, 0)
    /\ UNCHANGED <<searchQuery, searchOpen, selectedProduct>>
    /\ CatalogUnchanged

\* The fetch of the query of text q fails: a query that is observed is
\* fetched again up to retry: 1 times, then the failure stands.
CatalogFailure(q) ==
    /\ cache[q].fetching
    /\ IF q = searchQuery /\ cache[q].failureCount < QueryRetry
       THEN /\ cache' = [cache EXCEPT ![q].failureCount = @ + 1]
            /\ requested' = <<GetProducts(q)>>
       ELSE /\ cache' = [cache EXCEPT ![q].fetching = FALSE,
                                      ![q].failureCount = 0]
            /\ requested' = <<>>
    /\ lastOp' = Op("failure", q, 0)
    /\ UNCHANGED <<searchQuery, searchOpen, selectedProduct, productsData>>
    /\ CatalogUnchanged

\* staleTime passes for the data of the query of text q.
StaleTimeElapsed(q) ==
    /\ cache[q].data.loaded
    /\ cache[q].fresh
    /\ cache' = [cache EXCEPT ![q].fresh = FALSE]
    /\ requested' = <<>>
    /\ lastOp' = Op("staleTime", q, 0)
    /\ UNCHANGED <<searchQuery, searchOpen, selectedProduct, productsData>>
    /\ CatalogUnchanged

\* gcTime passes for a query no observer looks at: it leaves the cache.
GarbageCollect(q) ==
    /\ q # searchQuery
    /\ cache[q] # NoQuery
    /\ ~cache[q].fetching
    /\ cache' = [cache EXCEPT ![q] = NoQuery]
    /\ requested' = <<>>
    /\ lastOp' = Op("gc", q, 0)
    /\ UNCHANGED <<searchQuery, searchOpen, selectedProduct, productsData>>
    /\ CatalogUnchanged

\* The window gets the focus again (refetchOnWindowFocus): the observed
\* query is fetched if it is stale.
WindowFocus ==
    /\ StartsFetch(searchQuery)
    /\ cache' = [cache EXCEPT ![searchQuery].fetching = TRUE,
                              ![searchQuery].failureCount = 0]
    /\ requested' = <<GetProducts(searchQuery)>>
    /\ lastOp' = Op("focus", searchQuery, 0)
    /\ UNCHANGED <<searchQuery, searchOpen, selectedProduct, productsData>>
    /\ CatalogUnchanged

\* A result of the list is picked: handleSelectProduct empties the search
\* text, which disables the query.
CatalogPickProduct(i) ==
    /\ PickProduct(i)
    /\ requested' = <<>>
    /\ lastOp' = Op("handleSelectProduct", productsData.items[i].id, 0)
    /\ UNCHANGED <<cache, views>>

NextCatalog ==
    \/ \E text \in CacheKeys : CatalogTypeSearch(text)
    \/ \E q \in CacheKeys, items \in CatalogResults :
          CatalogResponse(q, items)
    \/ \E q \in CacheKeys : CatalogFailure(q)
    \/ \E q \in CacheKeys : StaleTimeElapsed(q)
    \/ \E q \in CacheKeys : GarbageCollect(q)
    \/ WindowFocus
    \/ \E i \in 1..Len(productsData.items) : CatalogPickProduct(i)

SpecCatalog == Init /\ [][NextCatalog]_vars

----------------------------------------------------------------------------
(* SaleFormDialog: the sale form of the Sales page *)

\* What the dialog's product query can return: p1 with one unit more than
\* the quick-sale catalog has, so that a line can be merged twice.
FormResults ==
    { << Product("p1", PriceOf("p1"), s, MinStockOf("p1")),
         Product("p2", PriceOf("p2"), MaxStock, MinStockOf("p2")) >> :
        s \in {0, MaxStock, MaxStock + 1} }

\* The texts typed in the dialog's inputs and the values of its selects.
FormQuantityTexts == {EmptyText, 1, 2}
FormLineQuantityTexts == {EmptyText, 1, 2, MaxStock + 2}
FormDiscountTexts == {EmptyText, -10, 10, 150}
FormCustomers == {NONE_VALUE, "c1"}
FormNotes == {"", "n"}

\* products.find((p) => p.id === id), as an index; 0 when there is none.
FindProduct(products, id) ==
    IF \E i \in 1..Len(products) : products[i].id = id
    THEN CHOOSE i \in 1..Len(products) :
             /\ products[i].id = id
             /\ \A j \in 1..(i - 1) : products[j].id # id
    ELSE 0

\* selectedProduct (useMemo): the index of the selected product, 0 for null.
SaleForm_selectedProduct(f) ==
    IF f.selectedProductId = NONE_VALUE THEN 0
    ELSE FindProduct(f.productsData.items, f.selectedProductId)

\* getAvailableStock(productId)
SaleForm_getAvailableStock(f, productId) ==
    LET p == FindProduct(f.productsData.items, productId)
    IN  IF p = 0 THEN 0
        ELSE f.productsData.items[p].stock
               - CurrentQuantityInTicket(f.items, productId)

\* stockValidation?.canAdd
SaleForm_canAdd(f) ==
    LET p == SaleForm_selectedProduct(f)
        qty == OrElse(Number(f.quantity), 0)
        availableStock == SaleForm_getAvailableStock(f, f.selectedProductId)
    IN  /\ p # 0
        /\ ~(qty > availableStock)
        /\ qty > 0
        /\ availableStock > 0

\* The remaining stock handleAddItem computes after setItems: in the merge
\* branch the line object it reads was already increased by qty.
SaleForm_remainingStock(product, items, existingIndex, qty) ==
    product.stock
      - (IF existingIndex > 0 THEN OrElse(items[existingIndex].quantity + qty, 0)
         ELSE 0)
      - qty

\* handleAddItem()
SaleForm_handleAddItem(f) ==
    LET p == SaleForm_selectedProduct(f)
        product == f.productsData.items[p]
        qty == OrElse(Number(f.quantity), 1)
        availableStock == SaleForm_getAvailableStock(f, product.id)
        existingIndex == FindIndex(f.items, product.id)
        remainingStock ==
            SaleForm_remainingStock(product, f.items, existingIndex, qty)
    IN  IF f.selectedProductId = NONE_VALUE \/ p = 0 THEN f
        ELSE IF qty > availableStock
        THEN [f EXCEPT !.toasts =
                 <<Toast("error", "Stock insuficiente", <<availableStock>>)>>]
        ELSE [f EXCEPT
                 !.items =
                     IF existingIndex > 0
                     THEN [f.items EXCEPT ![existingIndex].quantity = @ + qty]
                     ELSE Append(f.items, [productId |-> product.id,
                                           quantity |-> qty,
                                           product |-> product]),
                 !.toasts =
                     IF remainingStock <= product.minStock /\ remainingStock > 0
                     THEN <<Toast("warning", "Stock bajo", <<remainingStock>>)>>
                     ELSE <<>>,
                 !.selectedProductId = NONE_VALUE,
                 !.quantity = 1]

\* handleRemoveItem(index)
SaleForm_handleRemoveItem(f, index) ==
    [f EXCEPT !.items = SubSeq(f.items, 1, index - 1)
                          \o SubSeq(f.items, index + 1, Len(f.items))]

\* handleUpdateQuantity(index, newQty)
SaleForm_handleUpdateQuantity(f, index, newQty) ==
    IF newQty < 1 THEN f
    ELSE IF newQty > f.items[index].product.stock
    THEN [f EXCEPT !.toasts =
             <<Toast("error", "Stock insuficiente",
                     <<f.items[index].product.stock>>)>>]
    ELSE [f EXCEPT !.items[index].quantity = newQty]

\* subtotal, discount and total of the render.
SaleForm_subtotal(f) ==
    LET RECURSIVE sum(_)
        sum(n) == IF n = 0 THEN 0
                  ELSE sum(n - 1) + f.items[n].product.price * f.items[n].quantity
    IN  sum(Len(f.items))
SaleForm_total(f) ==
    LET subtotal_ == SaleForm_subtotal(f)
        discount == (subtotal_ * Number(f.discountPercent)) \div 100
    IN  subtotal_ - discount

\* resetForm(), also the effect that runs when the dialog opens.
SaleForm_resetForm(f) ==
    [f EXCEPT !.items = <<>>, !.customerId = NONE_VALUE,
              !.paymentMethod = "CASH", !.discountPercent = 0,
              !.notes = "", !.selectedProductId = NONE_VALUE, !.quantity = 1]

\* The CreateSaleDto of handleSubmit; Undefined is a key left out.
SaleForm_saleData(f) ==
    [items |-> [i \in 1..Len(f.items) |->
                   [productId |-> f.items[i].productId,
                    quantity |-> f.items[i].quantity]],
     paymentMethod |-> f.paymentMethod,
     customerId |-> IF f.customerId # NONE_VALUE THEN f.customerId ELSE "",
     discountPercent |-> IF Number(f.discountPercent) > 0
                         THEN Number(f.discountPercent) ELSE Undefined,
     notes |-> f.notes]

\* handleSubmit()
SaleForm_handleSubmit(f) ==
    LET lowStockItems ==
            { i \in 1..Len(f.items) :
                LET remaining == f.items[i].product.stock - f.items[i].quantity
                IN  remaining <= f.items[i].product.minStock /\ remaining > 0 }
    IN  IF Len(f.items) = 0
        THEN [f EXCEPT !.toasts =
                 <<Toast("error", "Agrega al menos un producto", <<>>)>>]
        ELSE [f EXCEPT
                 !.toasts =
                     IF lowStockItems # {}
                     THEN <<Toast("warning", "Advertencia de stock bajo",
                                  <<Cardinality(lowStockItems)>>)>>
                     ELSE <<>>,
                 !.posted = <<SaleForm_saleData(f)>>,
                 !.isPending = TRUE]

\* createMutation.onSuccess, with the page's onSuccess closing the dialog.
SaleForm_onSuccess(f) ==
    [SaleForm_resetForm(f) EXCEPT
        !.toasts = <<Toast("success", "Venta registrada correctamente",
                           <<SaleForm_total(f)>>)>>,
        !.isPending = FALSE,
        !.open = FALSE]

\* createMutation.onError
SaleForm_onError(f, message) ==
    [f EXCEPT !.toasts = <<Toast("error", "Error al registrar la venta",
                                 <<message>>)>>,
              !.isPending = FALSE]

\* A step of the dialog: the outputs of the previous step are gone, and the
\* rest of the application stays as it is.
SaleForm_cleared == [saleForm EXCEPT !.toasts = <<>>, !.posted = <<>>]
SaleFormStep(new) ==
    /\ saleForm' = new
    /\ UNCHANGED <<quickSale, cache, requested, lastOp, purchaseForm, sortConfig>>

\* The page opens the dialog ("Nueva Venta"); the effect on open resets it.
SaleForm_Open ==
    /\ ~saleForm.open
    /\ SaleFormStep([SaleForm_resetForm(SaleForm_cleared) EXCEPT !.open = TRUE])

\* "Cancelar": onOpenChange(false)
SaleForm_Cancelar ==
    /\ saleForm.open
    /\ SaleFormStep([SaleForm_cleared EXCEPT !.open = FALSE])

\* The products query delivers a result (the first or a refetch).
SaleForm_ProductsFetched ==
    \E items \in FormResults :
        /\ saleForm' = [SaleForm_cleared EXCEPT
                           !.productsData = [loaded |-> TRUE, items |-> items]]
        /\ UNCHANGED <<quickSale, cache, requested, lastOp, purchaseForm,
                       sortConfig>>

\* The product select: products with stock, those without available stock
\* disabled.
SaleForm_SelectProduct ==
    \E i \in 1..Len(saleForm.productsData.items) :
        LET product == saleForm.productsData.items[i]
        IN  /\ saleForm.open
            /\ product.stock > 0
            /\ SaleForm_getAvailableStock(saleForm, product.id) # 0
            /\ SaleFormStep([SaleForm_cleared EXCEPT
                                !.selectedProductId = product.id])

SaleForm_TypeQuantity ==
    \E text \in FormQuantityTexts :
        /\ saleForm.open
        /\ SaleFormStep([SaleForm_cleared EXCEPT !.quantity = text])

SaleForm_TypeDiscount ==
    \E text \in FormDiscountTexts :
        /\ saleForm.open
        /\ SaleFormStep([SaleForm_cleared EXCEPT !.discountPercent = text])

SaleForm_SelectPaymentMethod ==
    \E method \in PaymentMethods :
        /\ saleForm.open
        /\ SaleFormStep([SaleForm_cleared EXCEPT !.paymentMethod = method])

SaleForm_SelectCustomer ==
    \E c \in FormCustomers :
        /\ saleForm.open
        /\ SaleFormStep([SaleForm_cleared EXCEPT !.customerId = c])

SaleForm_TypeNotes ==
    \E n \in FormNotes :
        /\ saleForm.open
        /\ SaleFormStep([SaleForm_cleared EXCEPT !.notes = n])

\* The add button, disabled unless stockValidation?.canAdd.
SaleForm_ClickAdd ==
    /\ saleForm.open
    /\ SaleForm_canAdd(saleForm)
    /\ SaleFormStep(SaleForm_handleAddItem(SaleForm_cleared))

\* The quantity input of a row.
SaleForm_TypeLineQuantity ==
    \E index \in 1..Len(saleForm.items), text \in FormLineQuantityTexts :
        /\ saleForm.open
        /\ SaleFormStep(SaleForm_handleUpdateQuantity(SaleForm_cleared, index,
                                                      Number(text)))

\* The trash button of a row.
SaleForm_ClickRemove ==
    \E index \in 1..Len(saleForm.items) :
        /\ saleForm.open
        /\ SaleFormStep(SaleForm_handleRemoveItem(SaleForm_cleared, index))

\* "Registrar Venta", disabled while pending or without items.
SaleForm_ClickSubmit ==
    /\ saleForm.open
    /\ ~(saleForm.isPending \/ Len(saleForm.items) = 0)
    /\ SaleFormStep(SaleForm_handleSubmit(SaleForm_cleared))

\* The backend answers the order.
SaleForm_MutationSuccess ==
    /\ saleForm.isPending
    /\ SaleFormStep(SaleForm_onSuccess(SaleForm_cleared))

SaleForm_MutationError ==
    /\ saleForm.isPending
    /\ SaleFormStep(SaleForm_onError(SaleForm_cleared, "Stock insuficiente"))

NextSaleForm ==
    \/ SaleForm_Open
    \/ SaleForm_Cancelar
    \/ SaleForm_ProductsFetched
    \/ SaleForm_SelectProduct
    \/ SaleForm_TypeQuantity
    \/ SaleForm_TypeDiscount
    \/ SaleForm_SelectPaymentMethod
    \/ SaleForm_SelectCustomer
    \/ SaleForm_TypeNotes
    \/ SaleForm_ClickAdd
    \/ SaleForm_TypeLineQuantity
    \/ SaleForm_ClickRemove
    \/ SaleForm_ClickSubmit
    \/ SaleForm_MutationSuccess
    \/ SaleForm_MutationError

SpecSaleForm == Init /\ [][NextSaleForm]_vars

----------------------------------------------------------------------------
(* PurchaseFormDialog: the purchase form of the Purchases page *)

\* The quantity a purchase line is followed up to, the products the dialog's
\* query returns, the texts typed in its inputs and the values of its selects.
MaxQuantity == 3
PurchaseProducts ==
    << Product("p1", PriceOf("p1"), MaxStock, MinStockOf("p1")),
       Product("p2", PriceOf("p2"), MaxStock, MinStockOf("p2")) >>
PurchaseCostTexts == {EmptyText, 0, 40, 60}
PurchaseLineQuantityTexts == {EmptyText} \cup 1..MaxQuantity
PurchaseLineCostTexts == {EmptyText, -1, 40, 60}
PurchaseSuppliers == {NONE_VALUE, "s1"}

\* selectedProduct (useMemo): the index of the selected product, 0 for null.
PurchaseForm_selectedProduct(f) ==
    IF f.selectedProductId = NONE_VALUE THEN 0
    ELSE FindProduct(f.productsData.items, f.selectedProductId)

\* costValidation?.canAdd
PurchaseForm_canAdd(f) ==
    LET cost == OrElse(Number(f.unitCost), 0)
    IN  /\ PurchaseForm_selectedProduct(f) # 0
        /\ f.unitCost # EmptyText
        /\ ~(cost <= 0)
        /\ Number(f.quantity) > 0

\* handleAddItem that applies the entered cost to the existing line.
PurchaseForm_handleAddItemAppliesCost(f) ==
    LET p == PurchaseForm_selectedProduct(f)
        product == f.productsData.items[p]
        qty == OrElse(Number(f.quantity), 1)
        cost == OrElse(Number(f.unitCost), 0)
        existingIndex == FindIndex(f.items, product.id)
    IN  IF f.selectedProductId = NONE_VALUE \/ f.unitCost = EmptyText
        THEN [f EXCEPT !.toasts = <<Toast("error", "Datos incompletos", <<>>)>>]
        ELSE IF p = 0 THEN f
        ELSE IF cost <= 0
        THEN [f EXCEPT !.toasts = <<Toast("error", "Costo inválido", <<>>)>>]
        ELSE [f EXCEPT
                 !.items =
                     IF existingIndex > 0
                     THEN [f.items EXCEPT ![existingIndex].quantity = @ + qty,
                                          ![existingIndex].unitCost = cost]
                     ELSE Append(f.items, [productId |-> product.id,
                                           quantity |-> qty,
                                           unitCost |-> cost,
                                           product |-> product]),
                 !.toasts =
                     (IF cost >= product.price
                      THEN <<Toast("warning", "Margen bajo",
                                   <<cost, product.price>>)>>
                      ELSE <<>>)
                     \o (IF existingIndex > 0
                         THEN <<Toast("info", "Producto actualizado",
                                      <<product.id>>)>>
                         ELSE <<>>),
                 !.selectedProductId = NONE_VALUE,
                 !.quantity = 1,
                 !.unitCost = EmptyText]

\* handleAddItem()
PurchaseForm_handleAddItem(f) ==
    LET p == PurchaseForm_selectedProduct(f)
        product == f.productsData.items[p]
        qty == OrElse(Number(f.quantity), 1)
        cost == OrElse(Number(f.unitCost), 0)
        existingIndex == FindIndex(f.items, product.id)
    IN  IF f.selectedProductId = NONE_VALUE \/ f.unitCost = EmptyText
        THEN [f EXCEPT !.toasts = <<Toast("error", "Datos incompletos", <<>>)>>]
        ELSE IF p = 0 THEN f
        ELSE IF cost <= 0
        THEN [f EXCEPT !.toasts = <<Toast("error", "Costo inválido", <<>>)>>]
        ELSE [f EXCEPT
                 !.items =
                     IF existingIndex > 0
                     THEN [f.items EXCEPT ![existingIndex].quantity = @ + qty]
                     ELSE Append(f.items, [productId |-> product.id,
                                           quantity |-> qty,
                                           unitCost |-> cost,
                                           product |-> product]),
                 !.toasts =
                     (IF cost >= product.price
                      THEN <<Toast("warning", "Margen bajo",
                                   <<cost, product.price>>)>>
                      ELSE <<>>)
                     \o (IF existingIndex > 0
                         THEN <<Toast("info", "Producto actualizado",
                                      <<product.id>>)>>
                         ELSE <<>>),
                 !.selectedProductId = NONE_VALUE,
                 !.quantity = 1,
                 !.unitCost = EmptyText]

\* handleRemoveItem(index)
PurchaseForm_handleRemoveItem(f, index) ==
    [f EXCEPT !.items = SubSeq(f.items, 1, index - 1)
                          \o SubSeq(f.items, index + 1, Len(f.items))]

\* handleUpdateItem(index, field, value)
PurchaseForm_handleUpdateItem(f, index, field, value) ==
    IF value < 1 /\ field = "quantity" THEN f
    ELSE IF value < 0 /\ field = "unitCost" THEN f
    ELSE [f EXCEPT
             !.items[index] = IF field = "quantity"
                              THEN [@ EXCEPT !.quantity = value]
                              ELSE [@ EXCEPT !.unitCost = value],
             !.toasts = IF field = "unitCost"
                           /\ value >= f.items[index].product.price
                        THEN <<Toast("warning", "Margen bajo", <<>>)>>
                        ELSE <<>>]

\* total of the render.
PurchaseForm_total(f) ==
    LET RECURSIVE sum(_)
        sum(n) == IF n = 0 THEN 0
                  ELSE sum(n - 1) + f.items[n].unitCost * f.items[n].quantity
    IN  sum(Len(f.items))

\* resetForm(), also the effect that runs when the dialog opens.
PurchaseForm_resetForm(f) ==
    [f EXCEPT !.items = <<>>, !.supplierId = NONE_VALUE, !.notes = "",
              !.selectedProductId = NONE_VALUE, !.quantity = 1,
              !.unitCost = EmptyText]

\* The CreatePurchaseDto of handleSubmit; "" is a key left out.
PurchaseForm_purchaseData(f) ==
    [items |-> [i \in 1..Len(f.items) |->
                   [productId |-> f.items[i].productId,
                    quantity |-> f.items[i].quantity,
                    unitCost |-> f.items[i].unitCost]],
     supplierId |-> IF f.supplierId # NONE_VALUE THEN f.supplierId ELSE "",
     notes |-> f.notes]

\* handleSubmit()
PurchaseForm_handleSubmit(f) ==
    IF Len(f.items) = 0
    THEN [f EXCEPT !.toasts = <<Toast("error", "Sin productos", <<>>)>>]
    ELSE [f EXCEPT
             !.toasts = <<Toast("info", "Procesando compra...", <<>>)>>,
             !.posted = <<PurchaseForm_purchaseData(f)>>,
             !.isPending = TRUE]

\* createMutation.onSuccess, with the page's onSuccess closing the dialog.
PurchaseForm_onSuccess(f) ==
    [PurchaseForm_resetForm(f) EXCEPT
        !.toasts = <<Toast("success", "Compra registrada correctamente",
                           <<PurchaseForm_total(f)>>)>>,
        !.isPending = FALSE,
        !.open = FALSE]

\* createMutation.onError
PurchaseForm_onError(f, message) ==
    [f EXCEPT !.toasts = <<Toast("error", "Error al registrar la compra",
                                 <<message>>)>>,
              !.isPending = FALSE]

\* A step of the dialog: the outputs of the previous step are gone, and the
\* rest of the application stays as it is.
PurchaseForm_cleared == [purchaseForm EXCEPT !.toasts = <<>>, !.posted = <<>>]
PurchaseFormStep(new) ==
    /\ purchaseForm' = new
    /\ UNCHANGED <<quickSale, cache, requested, lastOp, saleForm, sortConfig>>

\* The page opens the dialog ("Nueva Compra"); the effect on open resets it.
PurchaseForm_Open ==
    /\ ~purchaseForm.open
    /\ PurchaseFormStep([PurchaseForm_resetForm(PurchaseForm_cleared)
                            EXCEPT !.open = TRUE])

\* "Cancelar": onOpenChange(false)
PurchaseForm_Cancelar ==
    /\ purchaseForm.open
    /\ PurchaseFormStep([PurchaseForm_cleared EXCEPT !.open = FALSE])

\* The products query delivers its result.
PurchaseForm_ProductsFetched ==
    /\ ~purchaseForm.productsData.loaded
    /\ PurchaseFormStep([PurchaseForm_cleared EXCEPT
           !.productsData = [loaded |-> TRUE, items |-> PurchaseProducts]])

\* The product select.
PurchaseForm_SelectProduct ==
    \E i \in 1..Len(purchaseForm.productsData.items) :
        /\ purchaseForm.open
        /\ PurchaseFormStep([PurchaseForm_cleared EXCEPT
               !.selectedProductId = purchaseForm.productsData.items[i].id])

PurchaseForm_TypeQuantity ==
    \E text \in FormQuantityTexts :
        /\ purchaseForm.open
        /\ PurchaseFormStep([PurchaseForm_cleared EXCEPT !.quantity = text])

PurchaseForm_TypeUnitCost ==
    \E text \in PurchaseCostTexts :
        /\ purchaseForm.open
        /\ PurchaseFormStep([PurchaseForm_cleared EXCEPT !.unitCost = text])

PurchaseForm_SelectSupplier ==
    \E supplier \in PurchaseSuppliers :
        /\ purchaseForm.open
        /\ PurchaseFormStep([PurchaseForm_cleared EXCEPT !.supplierId = supplier])

PurchaseForm_TypeNotes ==
    \E n \in FormNotes :
        /\ purchaseForm.open
        /\ PurchaseFormStep([PurchaseForm_cleared EXCEPT !.notes = n])

\* The add button, disabled without a selected product or costValidation's
\* canAdd; a line's quantity is followed up to MaxQuantity.
PurchaseForm_ClickAdd ==
    /\ purchaseForm.open
    /\ purchaseForm.selectedProductId # NONE_VALUE
    /\ PurchaseForm_canAdd(purchaseForm)
    /\ CurrentQuantityInTicket(purchaseForm.items,
                               purchaseForm.selectedProductId)
         + Number(purchaseForm.quantity) <= MaxQuantity
    /\ PurchaseFormStep(PurchaseForm_handleAddItem(PurchaseForm_cleared))

\* The unit cost input and the quantity input of a row.
PurchaseForm_TypeLineUnitCost ==
    \E index \in 1..Len(purchaseForm.items), text \in PurchaseLineCostTexts :
        /\ purchaseForm.open
        /\ PurchaseFormStep(PurchaseForm_handleUpdateItem(
               PurchaseForm_cleared, index, "unitCost", Number(text)))

PurchaseForm_TypeLineQuantity ==
    \E index \in 1..Len(purchaseForm.items),
       text \in PurchaseLineQuantityTexts :
        /\ purchaseForm.open
        /\ PurchaseFormStep(PurchaseForm_handleUpdateItem(
               PurchaseForm_cleared, index, "quantity", Number(text)))

\* The trash button of a row.
PurchaseForm_ClickRemove ==
    \E index \in 1..Len(purchaseForm.items) :
        /\ purchaseForm.open
        /\ PurchaseFormStep(PurchaseForm_handleRemoveItem(PurchaseForm_cleared,
                                                          index))

\* "Registrar Compra", disabled while pending or without items.
PurchaseForm_ClickSubmit ==
    /\ purchaseForm.open
    /\ ~(purchaseForm.isPending \/ Len(purchaseForm.items) = 0)
    /\ PurchaseFormStep(PurchaseForm_handleSubmit(PurchaseForm_cleared))

\* The backend answers the purchase.
PurchaseForm_MutationSuccess ==
    /\ purchaseForm.isPending
    /\ PurchaseFormStep(PurchaseForm_onSuccess(PurchaseForm_cleared))

PurchaseForm_MutationError ==
    /\ purchaseForm.isPending
    /\ PurchaseFormStep(PurchaseForm_onError(PurchaseForm_cleared,
                                             "Internal server error"))

NextPurchaseForm ==
    \/ PurchaseForm_Open
    \/ PurchaseForm_Cancelar
    \/ PurchaseForm_ProductsFetched
    \/ PurchaseForm_SelectProduct
    \/ PurchaseForm_TypeQuantity
    \/ PurchaseForm_TypeUnitCost
    \/ PurchaseForm_SelectSupplier
    \/ PurchaseForm_TypeNotes
    \/ PurchaseForm_ClickAdd
    \/ PurchaseForm_TypeLineUnitCost
    \/ PurchaseForm_TypeLineQuantity
    \/ PurchaseForm_ClickRemove
    \/ PurchaseForm_ClickSubmit
    \/ PurchaseForm_MutationSuccess
    \/ PurchaseForm_MutationError

SpecPurchaseForm == Init /\ [][NextPurchaseForm]_vars

----------------------------------------------------------------------------
(* useSorting and SortableTableHead: the sort state of a table page *)

\* The columns with a sortable head, and the state without a sort.
SortFields == {"name", "price", "stock"}
Unsorted == SortConfig("null", "null")

\* handleSort that goes from desc back to asc.
handleSortNoReset(prev, field) ==
    IF prev.sortBy # field THEN SortConfig(field, "asc")
    ELSE IF prev.sortOrder = "asc" THEN SortConfig(field, "desc")
    ELSE SortConfig(field, "asc")

\* The updater handleSort(field) passes to setSortConfig.
handleSort(prev, field) ==
    IF prev.sortBy # field THEN SortConfig(field, "asc")
    ELSE IF prev.sortOrder = "asc" THEN SortConfig(field, "desc")
    ELSE IF prev.sortOrder = "desc" THEN Unsorted
    ELSE SortConfig(field, "asc")

\* The Icon of SortableTableHead.
SortIcon(field, currentSortBy, currentSortOrder) ==
    LET isActive == currentSortBy = field
    IN  IF isActive
        THEN (IF currentSortOrder = "asc" THEN "ArrowUp" ELSE "ArrowDown")
        ELSE "ArrowUpDown"

\* <Button onClick={() => onSort(field)}> of a column head of a page.
ClickSortableTableHead ==
    \E page \in Pages, field \in SortFields :
        /\ sortConfig' = [sortConfig EXCEPT ![page] = handleSort(@, field)]
        /\ UNCHANGED <<quickSale, cache, requested, lastOp, saleForm,
                       purchaseForm>>

NextSorting == ClickSortableTableHead

SpecSorting == Init /\ [][NextSorting]_vars

----------------------------------------------------------------------------
(* Properties *)

\* The lines of a ticket that belong to a product, and their quantity.
LinesOf(items, id) == { i \in 1..Len(items) : items[i].productId = id }
HasLine(items, id) == LinesOf(items, id) # {}
LineOf(items, id) == CHOOSE i \in LinesOf(items, id) : TRUE
QuantityOf(items, id) ==
    IF HasLine(items, id) THEN items[LineOf(items, id)].quantity ELSE 0

\* Sum of unitPrice * quantity over the first n lines.
RECURSIVE SumPriceTimesQuantity(_, _)
SumPriceTimesQuantity(items, n) ==
    IF n = 0 THEN 0
    ELSE items[n].unitPrice * items[n].quantity
         + SumPriceTimesQuantity(items, n - 1)

\* The ticket without the lines of a product, the others in their order.
RECURSIVE LinesExcept(_, _)
LinesExcept(items, id) ==
    IF items = <<>> THEN <<>>
    ELSE IF Head(items).productId = id THEN LinesExcept(Tail(items), id)
    ELSE <<Head(items)>> \o LinesExcept(Tail(items), id)

StockError(ts) ==
    Len(ts) = 1 /\ ts[1].type = "error" /\ ts[1].title = "Stock insuficiente"

\* C1: every ticket line has 1 <= quantity <= stock of the product snapshot
\* stored in that line, also after the product was selected again from a
\* later fetch with another stock figure and merged into its line.
C1_QuantityWithinLineSnapshot ==
    \A i \in 1..Len(ticketItems) :
        /\ 1 <= ticketItems[i].quantity
        /\ ticketItems[i].quantity <= ticketItems[i].product.stock

\* C2: after every mutation each line has subtotal = unitPrice * quantity
\* and the ticket subtotal is the sum of unitPrice * quantity over the lines.
C2_SubtotalsConsistent ==
    /\ \A i \in 1..Len(ticketItems) :
          ticketItems[i].subtotal
             = ticketItems[i].unitPrice * ticketItems[i].quantity
    /\ subtotal = SumPriceTimesQuantity(ticketItems, Len(ticketItems))

\* C2 witness: a two-line ticket right after an addition was merged into a
\* line.
C2_Witness ==
    /\ Len(ticketItems) = 2
    /\ Len(toasts) >= 1
    /\ toasts[1].title = "Cantidad actualizada"
    /\ subtotal > 0

\* A step of handleAddToTicket that added the staged product.
AddSucceeded ==
    /\ handleAddToTicket
    /\ selectedProduct # NoProduct
    /\ selectedProduct' = NoProduct

\* What a successful addition does to the lines.
AddEffect ==
    LET id == selectedProduct.id
        n  == Len(ticketItems)
    IN
    IF HasLine(ticketItems, id)
    THEN LET k == LineOf(ticketItems, id) IN
         /\ Len(ticketItems') = n
         /\ ticketItems'[k].productId = id
         /\ ticketItems'[k].quantity = ticketItems[k].quantity + quantity
         /\ \A j \in (1..n) \ {k} : ticketItems'[j] = ticketItems[j]
    ELSE /\ Len(ticketItems') = n + 1
         /\ SubSeq(ticketItems', 1, n) = ticketItems
         /\ ticketItems'[n + 1].productId = id
         /\ ticketItems'[n + 1].quantity = quantity

\* C3: a product has at most one line in every reachable state; a successful
\* addToTicket for a product with a line raises that line's quantity by the
\* added quantity in place, and for a product without a line appends exactly
\* one line at the end.
C3_OneLinePerProduct ==
    /\ [](\A id \in ProductIds : Cardinality(LinesOf(ticketItems, id)) <= 1)
    /\ [][AddSucceeded => AddEffect]_vars

\* C3 witness: the first of two lines has just been merged into.
C3_Witness ==
    /\ Len(ticketItems) = 2
    /\ Len(toasts) >= 1
    /\ toasts[1].title = "Cantidad actualizada"
    /\ toasts[1].desc = <<ticketItems[1].quantity>>
    /\ ticketItems[1].quantity > 1

\* C4: addToTicket with existing quantity + quantity > selectedProduct.stock
\* reports InsufficientStock and leaves the lines, the discount, the payment
\* method and the staged selection unchanged.
C4_InsufficientStockLeavesTicket ==
    [][ ( /\ handleAddToTicket
          /\ selectedProduct # NoProduct
          /\ QuantityOf(ticketItems, selectedProduct.id) + quantity
                > selectedProduct.stock )
        => ( /\ StockError(toasts')
             /\ UNCHANGED <<ticketItems, discountPercent, paymentMethod,
                            selectedProduct, quantity>> ) ]_vars

\* C4 witness: the addition was refused with units of the product already
\* in the ticket, and the line still holds them.
C4_Witness ==
    /\ StockError(toasts)
    /\ Len(toasts[1].desc) = 2
    /\ toasts[1].desc[2] > 0
    /\ selectedProduct # NoProduct
    /\ QuantityOf(ticketItems, selectedProduct.id) = toasts[1].desc[2]
    /\ toasts[1].desc[2] + quantity > selectedProduct.stock
    /\ discountPercent > 0

\* What updateQuantity(id, n) does to a ticket that has a line for id.
UpdateEffect(id, n) ==
    LET k == LineOf(ticketItems, id) IN
    IF n <= 0
    THEN /\ ticketItems' = LinesExcept(ticketItems, id)
         /\ toasts' = <<>>
    ELSE IF n > ticketItems[k].product.stock
    THEN /\ StockError(toasts')
         /\ ticketItems' = ticketItems
    ELSE /\ Len(ticketItems') = Len(ticketItems)
         /\ ticketItems'[k] =
               [ticketItems[k] EXCEPT !.quantity = n,
                                      !.subtotal = ticketItems[k].unitPrice * n]
         /\ \A j \in (1..Len(ticketItems)) \ {k} :
               ticketItems'[j] = ticketItems[j]

\* C5: updateQuantity(productId, n) on an existing line removes the line for
\* n <= 0, reports InsufficientStock and leaves the line unchanged for
\* n > the line's product stock, and otherwise sets quantity = n and
\* subtotal = unitPrice * n and changes no other line.
C5_UpdateQuantity ==
    [][ \A id \in ProductIds, n \in -1..(MaxStock + 1) :
          (handleUpdateQuantity(id, n) /\ HasLine(ticketItems, id))
             => UpdateEffect(id, n) ]_vars

\* C5 witness: an update was refused for a line of a two-line ticket.
C5_Witness ==
    /\ StockError(toasts)
    /\ Len(toasts[1].desc) = 1
    /\ Len(ticketItems) = 2
    /\ \E i \in 1..2 : ticketItems[i].product.stock = toasts[1].desc[1]

\* C6: for discountPercent in 0..100 the totals are subtotal = sum of the
\* line subtotals, discountAmount = subtotal * discountPercent / 100 and
\* total = subtotal - discountAmount, after every line or discount change.
C6_Totals ==
    /\ discountPercent \in 0..100
    /\ subtotal = SumPriceTimesQuantity(ticketItems, Len(ticketItems))
    /\ discountAmount * 100 = subtotal * discountPercent
    /\ total = subtotal - discountAmount

\* C6 witness: lines 100 x 1 and 50 x 2 with a discount of 10 percent give
\* subtotal 200, discountAmount 20 and total 180.
C6_Witness ==
    /\ Len(ticketItems) = 2
    /\ ticketItems[1].unitPrice = 100 /\ ticketItems[1].quantity = 1
    /\ ticketItems[2].unitPrice = 50 /\ ticketItems[2].quantity = 2
    /\ discountPercent = 10
    /\ subtotal = 200 /\ discountAmount = 20 /\ total = 180

SaleDone(ts) ==
    Len(ts) = 1 /\ ts[1].type = "success" /\ ts[1].title = "Venta realizada"

SaleFailed(ts) ==
    /\ Len(ts) = 1 /\ ts[1].type = "error"
    /\ ts[1].title = "Error al procesar la venta"

\* C7: when the order-creation request succeeds the ticket is reset: no
\* lines, discountPercent 0, paymentMethod CASH, no staged product, staged
\* quantity 1 and an empty search query.
C7_SuccessResetsTicket ==
    [][ SaleDone(toasts')
        => ( /\ ticketItems' = <<>>
             /\ discountPercent' = 0
             /\ paymentMethod' = "CASH"
             /\ selectedProduct' = NoProduct
             /\ quantity' = 1
             /\ searchQuery' = "" ) ]_vars

\* C7 witness: a sale with a positive total has just been answered with
\* success.
C7_Witness ==
    /\ SaleDone(toasts)
    /\ toasts[1].desc[1] > 0
    /\ ticketItems = <<>>

\* C8: handling a failed order-creation request changes no ticket field, and
\* confirm() can be invoked again on that ticket.
C8_FailureKeepsTicket ==
    [][ SaleFailed(toasts')
        => ( /\ UNCHANGED <<ticketItems, discountPercent, paymentMethod,
                            selectedProduct, quantity>>
             /\ (Len(ticketItems') > 0 => ~CobrarDisabled') ) ]_vars

\* C8 witness: a failure was handled on a ticket with lines, a discount, a
\* payment method other than the default and a staged product.
C8_Witness ==
    /\ SaleFailed(toasts)
    /\ Len(ticketItems) = 2
    /\ discountPercent > 0
    /\ paymentMethod # "CASH"
    /\ selectedProduct # NoProduct
    /\ ~CobrarDisabled

\* C9: confirm() on a ticket with zero lines reports EmptyTicket, issues no
\* order-creation request and leaves every ticket field unchanged.
C9_EmptyTicketConfirm ==
    [][ (handleConfirmSale /\ Len(ticketItems) = 0)
        => ( /\ Len(toasts') = 1
             /\ toasts'[1].type = "error"
             /\ toasts'[1].title = "Ticket vacio"
             /\ posted' = <<>>
             /\ UNCHANGED <<inFlight, isPending>>
             /\ UNCHANGED <<ticketItems, discountPercent, paymentMethod,
                            selectedProduct, quantity, searchQuery>> ) ]_vars

\* C9 witness: confirm() was refused on an empty ticket that has a discount
\* and a staged product.
C9_Witness ==
    /\ Len(toasts) = 1
    /\ toasts[1].title = "Ticket vacio"
    /\ ticketItems = <<>>
    /\ discountPercent > 0
    /\ selectedProduct # NoProduct

\* C10: the order payload has one (productId, quantity) pair per ticket line
\* in ticket order, without unit price or subtotal, the current
\* paymentMethod, and discountPercent exactly when discountPercent > 0.
C10_OrderPayload ==
    posted # <<>> =>
        /\ Len(posted) = 1
        /\ Len(posted[1].items) = Len(ticketItems)
        /\ \A i \in 1..Len(ticketItems) :
              /\ DOMAIN posted[1].items[i] = {"productId", "quantity"}
              /\ posted[1].items[i].productId = ticketItems[i].productId
              /\ posted[1].items[i].quantity = ticketItems[i].quantity
        /\ posted[1].paymentMethod = paymentMethod
        /\ ("discountPercent" \in DOMAIN posted[1]) = (discountPercent > 0)
        /\ discountPercent > 0 => posted[1].discountPercent = discountPercent

\* C10 witness: a two-line ticket was sent without a discount and with a
\* payment method other than the default.
C10_Witness ==
    /\ Len(posted) = 1
    /\ Len(posted[1].items) = 2
    /\ "discountPercent" \notin DOMAIN posted[1]
    /\ posted[1].paymentMethod = "TRANSFER"

\* The elements of a sequence of strings in order, ", " between neighbours.
RECURSIVE CommaSeparated(_)
CommaSeparated(ss) ==
    IF ss = <<>> THEN ""
    ELSE IF Len(ss) = 1 THEN ss[1]
    ELSE CommaSeparated(SubSeq(ss, 1, Len(ss) - 1)) \o ", " \o ss[Len(ss)]

\* C11: for a non-OK response of POST /sales the error text surfaced is the
\* elements of body.message joined in order with ", " when message is an
\* array, and the message itself when it is one non-empty string; the ticket
\* lines are the same after the error is surfaced.
C11_ErrorText ==
    [][ \A body \in ErrorBodies :
          SaleMutationError(TRUE, body)
          => ( /\ SaleFailed(toasts')
               /\ body.kind = "array"
                     => toasts'[1].desc = <<CommaSeparated(body.message)>>
               /\ (body.kind = "string" /\ body.message[1] # "")
                     => toasts'[1].desc = <<body.message[1]>>
               /\ ticketItems' = ticketItems ) ]_vars

\* C11 witness: the two validation strings of an array message are shown as
\* one text, on a ticket that still has its lines.
C11_Witness ==
    /\ SaleFailed(toasts)
    /\ toasts[1].desc
          = <<"items must not be empty, quantity must be positive">>
    /\ Len(ticketItems) = 2

\* The low-stock advisory for a number of remaining units.
LowStockAdvisory(ts, remaining) ==
    \E i \in 1..Len(ts) :
        /\ ts[i].type = "warning"
        /\ ts[i].title = "Stock bajo"
        /\ ts[i].desc = <<remaining>>

\* C12: addToTicket is rejected only when totalRequested > stock; a
\* successful addition emits the low-stock advisory exactly when
\* remaining = stock - totalRequested satisfies 0 < remaining <= minStock,
\* so an addition with totalRequested = stock succeeds without advisory.
C12_LowStockAdvisory ==
    [][ (handleAddToTicket /\ selectedProduct # NoProduct)
        => LET totalRequested ==
                   QuantityOf(ticketItems, selectedProduct.id) + quantity
               remaining == selectedProduct.stock - totalRequested
               advised == \E i \in 1..Len(toasts') :
                              toasts'[i].title = "Stock bajo"
           IN  IF totalRequested > selectedProduct.stock
               THEN /\ StockError(toasts')
                    /\ selectedProduct' = selectedProduct
               ELSE /\ selectedProduct' = NoProduct
                    /\ QuantityOf(ticketItems', selectedProduct.id)
                          = totalRequested
                    /\ advised
                          <=> (0 < remaining
                               /\ remaining <= selectedProduct.minStock)
                    /\ advised => LowStockAdvisory(toasts', remaining)
      ]_vars

\* C12 witness: adding MaxStock - 1 units of p1 (minStock 1) succeeded with
\* the advisory for 1 remaining unit.
C12_Witness ==
    /\ LowStockAdvisory(toasts, 1)
    /\ selectedProduct = NoProduct
    /\ HasLine(ticketItems, "p1")
    /\ ticketItems[LineOf(ticketItems, "p1")].product.stock
          - QuantityOf(ticketItems, "p1") = 1
    /\ ticketItems[LineOf(ticketItems, "p1")].product.minStock = 1

\* C13: in every reachable state discountPercent is in [0, 100] and
\* paymentMethod is CASH, CARD or TRANSFER, and 0 <= total <= subtotal.
C13_DiscountAndMethodInRange ==
    /\ 0 <= discountPercent
    /\ discountPercent <= 100
    /\ paymentMethod \in {"CASH", "CARD", "TRANSFER"}
    /\ 0 <= total
    /\ total <= subtotal

\* C13 witness: the discount input was given 150 and holds 100, so the
\* total of a ticket with lines is 0.
C13_Witness ==
    /\ discountPercent = 100
    /\ subtotal > 0
    /\ total = 0
    /\ paymentMethod = "TRANSFER"

\* C14: cancel() is enabled in every ticket state and resets the ticket to
\* the initial empty state (no lines, discountPercent 0, paymentMethod CASH,
\* no staged product, staged quantity 1) without issuing a request.
C14_CancelResets ==
    /\ [](ENABLED handleClearTicket)
    /\ [][ lastOp'.op = "handleClearTicket"
           => ( /\ ticketItems' = <<>>
                /\ discountPercent' = 0
                /\ paymentMethod' = "CASH"
                /\ selectedProduct' = NoProduct
                /\ quantity' = 1
                /\ subtotal' = 0
                /\ total' = 0
                /\ posted' = <<>>
                /\ requested' = <<>>
                /\ UNCHANGED <<inFlight, isPending>> ) ]_vars

\* C14 witness: cancel() has just run on a ticket of two lines.
C14_Witness ==
    /\ lastOp.op = "handleClearTicket"
    /\ lastOp.n = 2
    /\ ticketItems = <<>>
    /\ discountPercent = 0
    /\ paymentMethod = "CASH"
    /\ selectedProduct = NoProduct

\* C15: removeLine(productId) deletes the line of that product and leaves
\* the other lines and their order as they were; without such a line the
\* ticket is unchanged and nothing is reported; removing again changes
\* nothing more.
C15_RemoveLine ==
    [][ lastOp'.op = "handleRemoveItem"
        => ( /\ ticketItems' = LinesExcept(ticketItems, lastOp'.id)
             /\ ~HasLine(ticketItems', lastOp'.id)
             /\ ~HasLine(ticketItems, lastOp'.id)
                   => ticketItems' = ticketItems
             /\ toasts' = <<>>
             /\ RemoveItem(ticketItems', lastOp'.id) = ticketItems'
             /\ UNCHANGED <<discountPercent, paymentMethod, selectedProduct,
                            quantity>> ) ]_vars

\* C15 witness: removeLine("p2") has just run on a ticket whose only line
\* is that of p1, and the line is still there.
C15_Witness ==
    /\ lastOp.op = "handleRemoveItem"
    /\ lastOp.id = "p2"
    /\ lastOp.n = 1
    /\ Len(ticketItems) = 1
    /\ ticketItems[1].productId = "p1"

\* The state of the ticket's state machine.
Phase ==
    IF isPending THEN "Submitting"
    ELSE IF Len(ticketItems) = 0 THEN "Empty"
    ELSE "Building"

C17_NoChangeWhileSubmitting ==
    [][ (isPending /\ isPending')
        => UNCHANGED <<ticketItems, discountPercent, paymentMethod>> ]_vars

\* C18: every step sends at most one POST /sales, and only a confirm() of the
\* operator sends one; the step that handles a failed request sends nothing
\* and leaves no request in flight.
C18_OneRequestPerConfirm ==
    [][ /\ Len(posted') <= 1
        /\ posted' # <<>> <=> inFlight' = inFlight + 1
        /\ posted' # <<>> => (handleConfirmSale /\ ~CobrarDisabled)
        /\ SaleFailed(toasts')
             => ( /\ posted' = <<>>
                  /\ inFlight' = inFlight - 1
                  /\ inFlight' = 0
                  /\ ~isPending' ) ]_vars

\* C18 witness: a failure has just been handled; nothing was sent again, no
\* request is in flight and the Cobrar button is enabled for a new confirm().
C18_Witness ==
    /\ SaleFailed(toasts)
    /\ posted = <<>>
    /\ inFlight = 0
    /\ ~isPending
    /\ ~CobrarDisabled

\* C19: while the search text is empty no catalog request is issued and no
\* result is shown; every request issued is for the non-empty search text
\* and asks for active products only, at most 20 of them.
C19_NoRequestForEmptyQuery ==
    /\ searchQuery = ""
          => ( /\ requested = <<>>
               /\ ~productsData.loaded
               /\ productsData.items = <<>> )
    /\ requested # <<>>
          => requested = << "/products?search=" \o searchQuery
                              \o "&active=true&limit=20" >>

\* C19 witness: the search text has just been emptied while the cache holds
\* a result for "a": nothing is requested and nothing is shown.
C19_Witness ==
    /\ lastOp = Op("setSearchQuery", "", 0)
    /\ searchQuery = ""
    /\ cache["a"].data.loaded
    /\ requested = <<>>
    /\ productsData = NoData

\* C20 as stated: every change of the search text to a non-empty value
\* issues a GET /products request for that text.
C20_RequestOnEveryChange ==
    [][ (searchQuery' # searchQuery /\ searchQuery' # "")
        => requested' = << "/products?search=" \o searchQuery'
                              \o "&active=true&limit=20" >> ]_vars

\* C20 amended: a change of the search text to a non-empty value issues a
\* GET /products request for that text unless the cache holds a fresh result
\* for it, which is then shown without a request, or a request for it is
\* still in flight.
C20_RequestUnlessHeld ==
    [][ (searchQuery' # searchQuery /\ searchQuery' # "")
        => IF cache[searchQuery'].data.loaded /\ cache[searchQuery'].fresh
           THEN /\ requested' = <<>>
                /\ productsData' = cache[searchQuery'].data
           ELSE IF cache[searchQuery'].fetching
           THEN requested' = <<>>
           ELSE requested' = << "/products?search=" \o searchQuery'
                                   \o "&active=true&limit=20" >> ]_vars

\* C20 witness: "a" has just been typed again and its result is shown from
\* the cache without a request.
C20_Witness ==
    /\ lastOp = Op("setSearchQuery", "a", 0)
    /\ searchQuery = "a"
    /\ requested = <<>>
    /\ productsData.loaded
    /\ cache["a"].fresh
    /\ ~cache["a"].fetching

\* C21 as stated: a response to the query of another text than the one in
\* the search input, arriving while a result is shown, replaces the result
\* shown.
C21_LastResponseShown ==
    [][ ( /\ lastOp'.op = "response"
          /\ lastOp'.id # searchQuery
          /\ productsData.loaded )
        => productsData' = cache'[lastOp'.id].data ]_vars

\* C21 amended: the result shown is always the one the cache holds for the
\* text in the search input; a response to the query of another text is
\* stored under that text and leaves the result shown as it is.
C21_ResponseKeptPerText ==
    /\ [](productsData = cache[searchQuery].data)
    /\ [][ lastOp'.op = "response"
           => ( /\ cache'[lastOp'.id].data.loaded
                /\ lastOp'.id # searchQuery => productsData' = productsData
              ) ]_vars

\* C21 witness: the response for "a" has just arrived after the one for
\* "b", with other stock figures, and the result of "b" is still shown.
C21_Witness ==
    /\ lastOp = Op("response", "a", 0)
    /\ searchQuery = "b"
    /\ productsData.loaded
    /\ cache["a"].data.loaded
    /\ productsData = cache["b"].data
    /\ productsData # cache["a"].data

\* The steps of the sale form dialog in which the add button added units of
\* the selected product, that product, and the low-stock advisory.
SaleForm_Added ==
    /\ saleForm.open /\ saleForm'.open
    /\ saleForm.selectedProductId # NONE_VALUE
    /\ saleForm'.selectedProductId = NONE_VALUE
    /\ saleForm'.items # saleForm.items
SaleForm_AddedProduct ==
    saleForm.productsData.items[SaleForm_selectedProduct(saleForm)]
SaleForm_Advisory(f) ==
    \E i \in 1..Len(f.toasts) : f.toasts[i].title = "Stock bajo"

\* C22: in the sale form dialog a successful add-item emits the low-stock
\* advisory exactly when remaining = product.stock - (total quantity of the
\* product in the cart after the addition) satisfies 0 < remaining <=
\* minStock, for a new line and for a merge into an existing line alike.
C22_AdvisoryOnAdd ==
    [][ SaleForm_Added =>
          LET product == SaleForm_AddedProduct
              remaining == product.stock
                             - QuantityOf(saleForm'.items, product.id)
          IN  SaleForm_Advisory(saleForm')
                <=> (0 < remaining /\ remaining <= product.minStock) ]_vars

\* C23: in the sale form dialog updating a line's quantity to a value <= 0
\* is the same as removing the line, and updating it to a value above the
\* line's product stock reports InsufficientStock and leaves the line as it
\* is.
C23_UpdateQuantityEdges ==
    \A index \in 1..Len(saleForm.items) :
        LET stock == saleForm.items[index].product.stock
            over == SaleForm_handleUpdateQuantity(saleForm, index, stock + 1)
        IN  /\ \A newQty \in {-1, 0} :
                  SaleForm_handleUpdateQuantity(saleForm, index, newQty).items
                    = SaleForm_handleRemoveItem(saleForm, index).items
            /\ over.items = saleForm.items
            /\ \E i \in 1..Len(over.toasts) :
                  over.toasts[i].title = "Stock insuficiente"

\* C24: in every reachable state of the sale form dialog the discount
\* percentage used for the totals and for the submitted payload is within
\* 0..100: 0 <= total <= subtotal, and a submitted discountPercent is
\* neither above 100 nor below 0.
C24_DiscountWithinRange ==
    /\ Number(saleForm.discountPercent) \in 0..100
    /\ 0 <= SaleForm_total(saleForm)
    /\ SaleForm_total(saleForm) <= SaleForm_subtotal(saleForm)
    /\ \A i \in 1..Len(saleForm.posted) :
          saleForm.posted[i].discountPercent # Undefined
            => saleForm.posted[i].discountPercent \in 0..100

\* C25: in the sale form dialog, through its controls, each product has at
\* most one line and every line has 1 <= quantity <= stock of the snapshot
\* stored on the line, also when the product list is fetched again with
\* another stock figure between two additions of the same product.
C25_LineWithinSnapshot ==
    /\ \A id \in ProductIds : Cardinality(LinesOf(saleForm.items, id)) <= 1
    /\ \A i \in 1..Len(saleForm.items) :
          /\ 1 <= saleForm.items[i].quantity
          /\ saleForm.items[i].quantity <= saleForm.items[i].product.stock


\* C26: on a successful quick-sale submission the total of the success
\* notification is subtotal - discountAmount of the ticket as it was when
\* the order was sent, whatever was done while the request was in flight.
C26_ToastTotalIsSentTotal ==
    [][ SaleDone(toasts')
        => ( /\ lastOp.op = "handleConfirmSale"
             /\ toasts'[1].desc = <<lastOp.n>> ) ]_vars

\* C27: with a backend that answers every order, every submission leaves
\* Submitting: the answer of a success leaves the ticket Empty, that of a
\* failure leaves the ticket's lines and ends the submission, and from then
\* on Cobrar is available whenever the ticket has a line.
C27_SubmissionEnds ==
    /\ (Phase = "Submitting")
          ~> ( /\ Phase \in {"Empty", "Building"}
               /\ Len(ticketItems) > 0 => (~CobrarDisabled /\ ENABLED ClickCobrar) )
    /\ [][ /\ SaleDone(toasts') => (Phase = "Submitting" /\ Phase' = "Empty")
           /\ SaleFailed(toasts')
                => ( /\ Phase = "Submitting" /\ Phase' # "Submitting"
                     /\ ticketItems' = ticketItems
                     /\ Len(ticketItems') > 0 => ~CobrarDisabled' ) ]_vars

C27_Witness ==
    /\ SaleFailed(toasts)
    /\ Phase = "Building"
    /\ ~CobrarDisabled
    /\ inFlight = 0
    /\ discountPercent = 10

\* The steps of the purchase form dialog in which the add button added
\* units of the selected product, and the sum of unitCost * quantity.
PurchaseForm_Added ==
    /\ purchaseForm.open /\ purchaseForm'.open
    /\ purchaseForm.selectedProductId # NONE_VALUE
    /\ purchaseForm'.selectedProductId = NONE_VALUE
    /\ purchaseForm'.items # purchaseForm.items

RECURSIVE SumCostTimesQuantity(_, _)
SumCostTimesQuantity(items, n) ==
    IF n = 0 THEN 0
    ELSE items[n].unitCost * items[n].quantity
         + SumCostTimesQuantity(items, n - 1)

\* C28: in the purchase form dialog, after any sequence of add-item,
\* update-item (quantity or unitCost) and remove-item, every line has
\* quantity >= 1 and unitCost > 0, and no submitted purchase holds a line
\* with a cost of zero or less.
C28_LinesHavePositiveCost ==
    /\ \A i \in 1..Len(purchaseForm.items) :
          /\ purchaseForm.items[i].quantity >= 1
          /\ purchaseForm.items[i].unitCost > 0
    /\ \A k \in 1..Len(purchaseForm.posted) :
          \A i \in 1..Len(purchaseForm.posted[k].items) :
              purchaseForm.posted[k].items[i].unitCost > 0

\* C29: in the purchase form dialog a product has at most one line; adding
\* a product that has a line adds the entered quantity to that line and
\* leaves its unitCost (the cost entered is not applied) and every other
\* line as they are; the total is the sum of unitCost * quantity over the
\* lines.
C29_MergeKeepsUnitCost ==
    /\ [] ( /\ \A id \in ProductIds :
                  Cardinality(LinesOf(purchaseForm.items, id)) <= 1
            /\ PurchaseForm_total(purchaseForm)
                 = SumCostTimesQuantity(purchaseForm.items,
                                        Len(purchaseForm.items)) )
    /\ [][ ( /\ PurchaseForm_Added
             /\ HasLine(purchaseForm.items, purchaseForm.selectedProductId) )
           => LET id == purchaseForm.selectedProductId
                  i == LineOf(purchaseForm.items, id)
              IN  /\ Len(purchaseForm'.items) = Len(purchaseForm.items)
                  /\ purchaseForm'.items[i].quantity
                       = purchaseForm.items[i].quantity
                           + Number(purchaseForm.quantity)
                  /\ purchaseForm'.items[i].unitCost
                       = purchaseForm.items[i].unitCost
                  /\ \A j \in 1..Len(purchaseForm.items) :
                        j # i => purchaseForm'.items[j] = purchaseForm.items[j]
         ]_vars

C29_Witness ==
    /\ Len(purchaseForm.items) = 2
    /\ purchaseForm.items[2].productId = "p2"
    /\ purchaseForm.items[2].quantity = 3
    /\ purchaseForm.items[2].unitCost = 40
    /\ Len(purchaseForm.toasts) = 2
    /\ purchaseForm.toasts[1].title = "Margen bajo"
    /\ purchaseForm.toasts[2].title = "Producto actualizado"
    /\ PurchaseForm_total(purchaseForm) = 120 + purchaseForm.items[1].unitCost

\* handleSort(f) called n times in a row.
RECURSIVE SortTimes(_, _, _)
SortTimes(config, field, n) ==
    IF n = 0 THEN config ELSE handleSort(SortTimes(config, field, n - 1), field)

\* C30: the sort state cycles per column: handleSort(f) on a column that is
\* not the sort column gives (f, asc); on the sort column it goes from asc
\* to desc and from desc to unsorted (null, null); sortBy is null exactly
\* when sortOrder is null; three handleSort(f) in a row from the unsorted
\* state end in the unsorted state. The heads show it: one column has an
\* arrow while the table is sorted, none while it is not.
C30_SortCycle ==
    \A page \in Pages :
        LET config == sortConfig[page]
        IN  /\ config.sortBy = "null" <=> config.sortOrder = "null"
            /\ \A field \in SortFields :
                  /\ config.sortBy # field
                       => handleSort(config, field) = SortConfig(field, "asc")
                  /\ (config.sortBy = field /\ config.sortOrder = "asc")
                       => handleSort(config, field) = SortConfig(field, "desc")
                  /\ (config.sortBy = field /\ config.sortOrder = "desc")
                       => handleSort(config, field) = Unsorted
                  /\ config = Unsorted
                       => ( /\ SortTimes(config, field, 1) = SortConfig(field, "asc")
                            /\ SortTimes(config, field, 2) = SortConfig(field, "desc")
                            /\ SortTimes(config, field, 3) = Unsorted )
            /\ Cardinality({ field \in SortFields :
                               SortIcon(field, config.sortBy, config.sortOrder)
                                 # "ArrowUpDown" })
                 = IF config = Unsorted THEN 0 ELSE 1

C30_Witness ==
    /\ sortConfig["Products"] = SortConfig("price", "desc")
    /\ sortConfig["Clients"] = SortConfig("name", "asc")
    /\ sortConfig["Suppliers"] = Unsorted
    /\ handleSort(sortConfig["Products"], "price") = Unsorted
    /\ SortIcon("price", "price", "desc") = "ArrowDown"

============================================================================
